---------------------------- MODULE Spec2Model ----------------------------
(***************************************************************************)
(* The WhatsApp storefront bot of src/: the connection lifecycle manager   *)
(* (iniciarBot and its connection.update / creds.update handlers, the      *)
(* Supabase credential bridge) and the command dispatch router             *)
(* (messages.upsert, processMessage, ensureGroupReady, the pending queue). *)
(*                                                                         *)
(* Two variants of the program are modelled side by side, chosen by the    *)
(* variable `variant`:                                                     *)
(*   "final"  - the last program of src/unnamed/part_001 (lines 598-1056), *)
(*              with the reconnect counter and the back-off;               *)
(*   "telao3" - src/telao3/index.js.                                       *)
(*                                                                         *)
(* The chat transport, the command handlers and the object store are       *)
(* opaque: each of their calls is a nondeterministic outcome (it resolves  *)
(* or it rejects), and every `await` of the source is a point where other  *)
(* events may be handled.                                                  *)
(***************************************************************************)
EXTENDS Integers, Sequences, FiniteSets, TLC

VARIABLES
    variant,            \* which program runs: "final" | "telao3"
    proc,               \* "running" | "exit0" | "exit1"
    reconnectAttempts,  \* let reconnectAttempts           (part_001:635)
    authReady,          \* let authReady                   (part_001:632)
    qrSent,             \* let qrSent                      (part_001:633)
    local,              \* the files of AUTH_FOLDER
    remote,             \* the objects of the Supabase bucket
    timers,             \* pending setTimeout callbacks that start the bot
    boot,               \* the running iniciarBot call, if any
    sock,               \* the current socket (session instance)
    inst,               \* number of session instances created so far (capped)
    consecCloses,       \* history: non-logout closures since the last open / logout / start
    closesSinceReset,   \* history: non-logout closures since the counter was last zeroed
    pendingMessages,    \* let pendingMessages = []        (part_001:631)
    flushes,            \* running processPendingMessages calls
    tasks,              \* running processMessage calls
    nextId,             \* id of the next inbound message
    senderReadyGroups,  \* per instance: const senderReadyGroups (part_001:833)
    senderAttemptAt,    \* per instance: const senderAttemptAt   (part_001:834)
    now,                \* Date.now()
    owed,               \* history: entries queued while not ready, no open since
    pushed,             \* history: ids of the queued entries, in insertion order
    attempts,           \* history: flush delivery attempts, in order
    failed,             \* history: entries whose flush delivery failed
    outbox,             \* history: per inbound message, what was done for it
    warmSent,           \* history: the warm-up sends started, [inst, at], in order
    mirrorDue           \* history: an open handler has not reached its mirror

vars == << variant, proc, reconnectAttempts, authReady, qrSent, local, remote,
           timers, boot, sock, inst, consecCloses, closesSinceReset,
           pendingMessages, flushes, tasks, nextId, senderReadyGroups,
           senderAttemptAt, now, owed, pushed, attempts, failed, outbox,
           warmSent, mirrorDue >>

lifeVars == << variant, proc, reconnectAttempts, authReady, qrSent, local, remote,
               timers, boot, sock, inst, consecCloses, closesSinceReset >>

msgVars == << pendingMessages, flushes, tasks, nextId, senderReadyGroups,
              senderAttemptAt, now, owed, pushed, attempts, failed, outbox,
              warmSent, mirrorDue >>

-----------------------------------------------------------------------------
(* Program constants *)

MAX_RECONNECT_ATTEMPTS == 10
RECONNECT_DELAY == 5000
DELAY_CAP == 30000
LOGOUT_DELAY == 3000
TELAO3_DELAY == 3000
STARTBOT_DELAY == 10000
SENDER_COOLDOWN_MS == 60000
EXIT_DELAY == 1000

(* Bounds of the model *)

MaxQrSignals == 2     \* scan-required signals the transport fires per instance
MaxInst == 2          \* session instances that receive inbound messages
MaxMsgs == 2          \* inbound messages in one behaviour
MaxTicks == 2         \* clock advances in one behaviour
MaxBatch == 2         \* messages in one messages.upsert batch

Variants == {"final", "telao3"}
Blobs == {"creds.json", "app-state-sync-key.json"}
Reasons == {"loggedOut", "connectionLost"}

Min(a, b) == IF a <= b THEN a ELSE b

RECURSIVE Pow(_, _)
Pow(b, e) == IF e = 0 THEN 1 ELSE b * Pow(b, e - 1)

-----------------------------------------------------------------------------
(* Reconnection policy: part_001:797                                       *)
(*   Math.min(RECONNECT_DELAY * Math.pow(1.5, reconnectAttempts - 1), 30000) *)
(* The value is a double; it is kept exactly here in units of              *)
(* 1 / 2^MAX_RECONNECT_ATTEMPTS ms (every value the code can compute, for  *)
(* 1 <= n <= MAX_RECONNECT_ATTEMPTS + 1, is a whole number of these).      *)

DelayScale == Pow(2, MAX_RECONNECT_ATTEMPTS)

Ms(x) == x * DelayScale

(* The same growth with the exponent taken one too high *)
ReconnectDelayNext(n) ==
    Min(RECONNECT_DELAY * Pow(3, n) * Pow(2, MAX_RECONNECT_ATTEMPTS - n),
        Ms(DELAY_CAP))

ReconnectDelay(n) ==
    Min(RECONNECT_DELAY * Pow(3, n - 1) * Pow(2, MAX_RECONNECT_ATTEMPTS - (n - 1)),
        Ms(DELAY_CAP))

(* part_001:806  else if (reconnectAttempts > MAX_RECONNECT_ATTEMPTS) *)
(* A ceiling that is reached one closure earlier: the alternative against *)
(* which the position of the terminating closure is tested.               *)
ExceedsCeilingEarly(n) == n >= MAX_RECONNECT_ATTEMPTS

(* A ceiling that lets one more restart through *)
ExceedsCeilingLate(n) == n > MAX_RECONNECT_ATTEMPTS + 1

(* part_001:806  reconnectAttempts > MAX_RECONNECT_ATTEMPTS *)
ExceedsCeiling(n) == n > MAX_RECONNECT_ATTEMPTS

(* A start that resets the counter whatever the ready flag is *)
ResetOnStartAlways(ready) == TRUE

(* part_001:726  if (authReady) reconnectAttempts = 0 *)
ResetOnStart(ready) == ready

(* A logout branch that keeps the folder *)
RmSyncKeeps(loc) == loc

(* part_001:801-803  fs.rmSync(AUTH_FOLDER, { recursive: true, force: true }) *)
RmSync(loc) == {}

-----------------------------------------------------------------------------
(* Credential Store Bridge *)

(* The transport asks for a credential scan when the credentials it was    *)
(* given hold no registered identity (creds.json), and opens otherwise.    *)
Registered(creds) == "creds.json" \in creds

(* A mirror that gives up at the first failed upload: nothing is stored    *)
(* unless every upload succeeds.                                           *)
SyncAuthToSupabaseStops(loc, rem, ok) ==
    IF loc \subseteq ok THEN rem \cup loc ELSE rem

(* syncAuthToSupabase: every local file is uploaded with upsert; a failed  *)
(* upload is logged and skipped.  ok is the set of uploads that succeed.   *)
SyncAuthToSupabase(loc, rem, ok) == rem \cup (loc \cap ok)

(* syncAuthFromSupabase of the final program (part_001:641-676).           *)
(*   listOk = FALSE : list() returns an error -> catch: folder wiped       *)
(*   rem = {}       : nothing stored -> return false, folder untouched     *)
(*   ok # rem       : a download fails -> catch: folder wiped              *)
(*   otherwise      : every remote file is written into the folder         *)
SyncAuthFromSupabaseFinal(loc, rem, listOk, ok) ==
    IF ~listOk THEN {}
    ELSE IF rem = {} THEN loc
    ELSE IF ~(rem \subseteq ok) THEN {}
    ELSE loc \cup rem

(* syncAuthFromSupabase of telao3 (index.js:38-59): a list error returns,  *)
(* a failed download is logged and the loop goes on.                       *)
SyncAuthFromSupabaseTelao3(loc, rem, listOk, ok) ==
    IF ~listOk THEN loc ELSE loc \cup (rem \cap ok)

SyncAuthFromSupabase(v, loc, rem, listOk, ok) ==
    IF v = "final" THEN SyncAuthFromSupabaseFinal(loc, rem, listOk, ok)
    ELSE SyncAuthFromSupabaseTelao3(loc, rem, listOk, ok)

-----------------------------------------------------------------------------
(* Pending Delivery Queue *)

Entry(id, jid, kind) == [id |-> id, jid |-> jid, kind |-> kind]

Ids(q) == {q[i].id : i \in 1..Len(q)}

(* The array a running flush iterates: the global array while the global   *)
(* still names it, its own detached copy after another flush has assigned  *)
(* pendingMessages = [].                                                   *)
FlushArray(f) == IF f.live THEN pendingMessages ELSE f.arr

NoSock == [conn |-> "none", creds |-> {}, cause |-> "first",
           qrSignals |-> 0, qrEmitted |-> 0]

Idle == [pc |-> "idle", cause |-> "first"]

Cap(n) == Min(n, MAX_RECONNECT_ATTEMPTS + 2)

-----------------------------------------------------------------------------
Init ==
    /\ variant \in Variants
    /\ proc = "running"
    /\ reconnectAttempts = 0
    /\ authReady = FALSE
    /\ qrSent = FALSE
    /\ local \in SUBSET Blobs
    /\ remote \in SUBSET Blobs
    /\ timers = {}
    /\ boot = [pc |-> "sync", cause |-> "first"]
    /\ sock = NoSock
    /\ inst = 0
    /\ consecCloses = 0
    /\ closesSinceReset = 0
    /\ pendingMessages = << >>
    /\ flushes = << >>
    /\ tasks = {}
    /\ nextId = 1
    /\ senderReadyGroups = [i \in 1..MaxInst |-> {}]
    /\ senderAttemptAt = [i \in 1..MaxInst |-> 0]
    /\ now = SENDER_COOLDOWN_MS
    /\ owed = {}
    /\ pushed = << >>
    /\ attempts = << >>
    /\ failed = {}
    /\ outbox = [i \in 1..MaxMsgs |-> << >>]
    /\ warmSent = << >>
    /\ mirrorDue = FALSE

-----------------------------------------------------------------------------
(* Session Supervisor *)

(* A restart scheduled with setInterval: the callback stays pending *)
AfterFireInterval(ts, t) == ts

(* setTimeout (part_001:805, 812, 996, index.js:128) is one-shot: the      *)
(* callback that fired is no longer pending.                               *)
AfterFire(ts, t) == ts \ {t}

(* A timer fires and calls iniciarBot (or startBot): the call runs up to   *)
(* its first await, the list() of syncAuthFromSupabase.                    *)
(*   part_001:726  if (authReady) reconnectAttempts = 0                    *)
TimerFire(t) ==
    /\ proc = "running"
    /\ t \in timers
    /\ t.kind # "exit"
    /\ boot.pc = "idle"
    /\ timers' = AfterFire(timers, t)
    /\ boot' = [pc |-> "sync", cause |-> t.kind]
    /\ reconnectAttempts' =
          IF variant = "final" /\ ResetOnStart(authReady) THEN 0 ELSE reconnectAttempts
    /\ UNCHANGED << variant, proc, authReady, qrSent, local, remote, sock, inst,
                    consecCloses, closesSinceReset >>
    /\ UNCHANGED msgVars

(* syncAuthFromSupabase returns; qrSent = false (part_001:731-732).        *)
BootSync(listOk, ok) ==
    /\ proc = "running"
    /\ boot.pc = "sync"
    /\ local' = SyncAuthFromSupabase(variant, local, remote, listOk, ok)
    /\ qrSent' = FALSE
    /\ boot' = [boot EXCEPT !.pc = "auth"]
    /\ UNCHANGED << variant, proc, reconnectAttempts, authReady, remote, timers,
                    sock, inst, consecCloses, closesSinceReset >>
    /\ UNCHANGED msgVars

(* useMultiFileAuthState reads the folder, fetchLatestBaileysVersion       *)
(* returns and makeWASocket creates the new instance (part_001:735-758).   *)
BootCreate ==
    /\ proc = "running"
    /\ boot.pc = "auth"
    /\ sock' = [conn |-> "connecting", creds |-> local, cause |-> boot.cause,
                qrSignals |-> 0, qrEmitted |-> 0]
    /\ inst' = Min(inst + 1, MaxInst + 1)
    /\ boot' = Idle
    /\ UNCHANGED << variant, proc, reconnectAttempts, authReady, qrSent, local,
                    remote, timers, consecCloses, closesSinceReset >>
    /\ UNCHANGED msgVars

(* A startBot whose catch only logs *)
BootFailGivesUp(crash) ==
    /\ proc = "running"
    /\ boot.pc = "auth"
    /\ boot' = Idle
    /\ proc' = IF variant = "telao3" /\ crash THEN "exit1" ELSE proc
    /\ UNCHANGED << variant, reconnectAttempts, authReady, qrSent, local, remote,
                    timers, sock, inst, consecCloses, closesSinceReset >>
    /\ UNCHANGED msgVars

(* One of the awaits of iniciarBot rejects before the socket exists.       *)
(* Only startBot catches it (part_001:990-998); an iniciarBot called from a *)
(* restart timer rejects unhandled, which is logged (part_001:1055).       *)
(* telao3 has no handler for it: the runtime logs it or ends the process.  *)
BootFail(crash) ==
    /\ proc = "running"
    /\ boot.pc = "auth"
    /\ boot' = Idle
    /\ timers' = IF variant = "final" /\ boot.cause \in {"first", "startBot"}
                 THEN timers \cup {[kind |-> "startBot", delay |-> Ms(STARTBOT_DELAY)]}
                 ELSE timers
    /\ proc' = IF variant = "telao3" /\ crash THEN "exit1" ELSE proc
    /\ UNCHANGED << variant, reconnectAttempts, authReady, qrSent, local, remote,
                    sock, inst, consecCloses, closesSinceReset >>
    /\ UNCHANGED msgVars

(* part_001:777  if (qr && !qrSent)      index.js:108  if (qr)             *)
QrShouldEmit == IF variant = "final" THEN ~qrSent ELSE TRUE

(* connection.update carrying a qr.  rendered: QRCode.toDataURL resolved   *)
(* and the code was printed.                                               *)
QrEvent(rendered) ==
    /\ proc = "running"
    /\ sock.conn = "connecting"
    /\ ~Registered(sock.creds)
    /\ sock.qrSignals < MaxQrSignals
    /\ IF QrShouldEmit
       THEN /\ qrSent' = (variant = "final")
            /\ reconnectAttempts' = 0
            /\ closesSinceReset' = 0
            /\ sock' = [sock EXCEPT !.qrSignals = @ + 1,
                                    !.qrEmitted = @ + (IF rendered THEN 1 ELSE 0)]
       ELSE /\ sock' = [sock EXCEPT !.qrSignals = @ + 1]
            /\ UNCHANGED << qrSent, reconnectAttempts, closesSinceReset >>
    /\ UNCHANGED << variant, proc, authReady, local, remote, timers, boot, inst,
                    consecCloses >>
    /\ UNCHANGED msgVars

(* creds.update: saveCreds(), then syncAuthToSupabase() (part_001:827-830) *)
CredsUpdate(b, ok) ==
    /\ proc = "running"
    /\ sock.conn \in {"connecting", "open"}
    /\ local' = local \cup {b}
    /\ remote' = SyncAuthToSupabase(local', remote, ok)
    /\ UNCHANGED << variant, proc, reconnectAttempts, authReady, qrSent, timers,
                    boot, sock, inst, consecCloses, closesSinceReset >>
    /\ UNCHANGED msgVars

(* A close branch that tests the ceiling before the logout reason *)
CloseFinalCeilingFirst(reason) ==
    LET n == reconnectAttempts + 1
        delay == ReconnectDelay(n)
    IN  IF ExceedsCeiling(n)
        THEN /\ reconnectAttempts' = n
             /\ proc' = "exit1"
             /\ UNCHANGED << local, timers, authReady >>
        ELSE IF reason = "loggedOut"
        THEN /\ local' = RmSync(local)
             /\ reconnectAttempts' = 0
             /\ timers' = timers \cup {[kind |-> "logout", delay |-> Ms(LOGOUT_DELAY)]}
             /\ UNCHANGED << proc, authReady >>
        ELSE /\ reconnectAttempts' = n
             /\ authReady' = FALSE
             /\ timers' = timers \cup {[kind |-> "backoff", delay |-> delay]}
             /\ UNCHANGED << local, proc >>

(* connection === "close" (part_001:790-813, index.js:118-128) *)
CloseFinal(reason) ==
    LET n == reconnectAttempts + 1
        delay == ReconnectDelay(n)
    IN  IF reason = "loggedOut"
        THEN /\ local' = RmSync(local)
             /\ reconnectAttempts' = 0
             /\ timers' = timers \cup {[kind |-> "logout", delay |-> Ms(LOGOUT_DELAY)]}
             /\ UNCHANGED << proc, authReady >>
        ELSE IF ExceedsCeiling(n)
        THEN /\ reconnectAttempts' = n
             /\ proc' = "exit1"
             /\ UNCHANGED << local, timers, authReady >>
        ELSE /\ reconnectAttempts' = n
             /\ authReady' = FALSE
             /\ timers' = timers \cup {[kind |-> "backoff", delay |-> delay]}
             /\ UNCHANGED << local, proc >>

(* A telao3 close branch with the backoff and the ceiling of the final     *)
(* program                                                                 *)
CloseTelao3Backoff(reason) == CloseFinal(reason)

(* index.js:118-128: process.exit(0) on logout, otherwise                  *)
(* setTimeout(() => iniciarBot(deviceName, authFolder), 3000)              *)
CloseTelao3(reason) ==
    IF reason = "loggedOut"
    THEN /\ proc' = "exit0"
         /\ UNCHANGED << local, reconnectAttempts, timers, authReady >>
    ELSE /\ timers' = timers \cup {[kind |-> "fixed", delay |-> Ms(TELAO3_DELAY)]}
         /\ UNCHANGED << local, reconnectAttempts, proc, authReady >>

CloseEvent(reason) ==
    /\ proc = "running"
    /\ sock.conn \in {"connecting", "open"}
    /\ sock' = [sock EXCEPT !.conn = "closed"]
    /\ IF variant = "final" THEN CloseFinal(reason) ELSE CloseTelao3(reason)
    /\ consecCloses' = IF reason = "loggedOut" THEN 0 ELSE Cap(consecCloses + 1)
    /\ closesSinceReset' = IF reason = "loggedOut" THEN 0 ELSE Cap(closesSinceReset + 1)
    /\ UNCHANGED << variant, qrSent, remote, boot, inst >>
    /\ UNCHANGED msgVars

-----------------------------------------------------------------------------
(* Process handlers of the final program (part_001:1040-1057); telao3      *)
(* registers none.                                                         *)

Signals == {"SIGINT", "SIGTERM"}

(* process.on('SIGINT' | 'SIGTERM', () => { log; process.exit(0) }) *)
Interrupt(sig) ==
    /\ proc = "running"
    /\ variant = "final"
    /\ sig \in Signals
    /\ proc' = "exit0"
    /\ UNCHANGED << variant, reconnectAttempts, authReady, qrSent, local, remote,
                    timers, boot, sock, inst, consecCloses, closesSinceReset >>
    /\ UNCHANGED msgVars

(* process.on('uncaughtException'): log; setTimeout(() => process.exit(1), *)
(* 1000).  The process goes on handling events until the timer fires.      *)
UncaughtException ==
    /\ proc = "running"
    /\ variant = "final"
    /\ timers' = timers \cup {[kind |-> "exit", delay |-> Ms(EXIT_DELAY)]}
    /\ UNCHANGED << variant, proc, reconnectAttempts, authReady, qrSent, local,
                    remote, boot, sock, inst, consecCloses, closesSinceReset >>
    /\ UNCHANGED msgVars

(* The callback of that timer: process.exit(1) *)
ExitTimer ==
    /\ proc = "running"
    /\ \E t \in timers : t.kind = "exit" /\ timers' = timers \ {t}
    /\ proc' = "exit1"
    /\ UNCHANGED << variant, reconnectAttempts, authReady, qrSent, local, remote,
                    boot, sock, inst, consecCloses, closesSinceReset >>
    /\ UNCHANGED msgVars

(* Without a handler Node ends the process on an unhandled rejection *)
OnUnhandledRejectionDefault(p) == "exit1"

(* process.on('unhandledRejection', (reason, promise) => { log }):         *)
(* the state of the process after the handler.                             *)
OnUnhandledRejection(p) == p

UnhandledRejection ==
    /\ proc = "running"
    /\ variant = "final"
    /\ proc' = OnUnhandledRejection(proc)
    /\ UNCHANGED << variant, reconnectAttempts, authReady, qrSent, local, remote,
                    timers, boot, sock, inst, consecCloses, closesSinceReset >>
    /\ UNCHANGED msgVars

ProcessEvents ==
    \/ \E sig \in Signals : Interrupt(sig)
    \/ UncaughtException
    \/ ExitTimer
    \/ UnhandledRejection

-----------------------------------------------------------------------------
(* Pending Delivery Queue: processPendingMessages (part_001:760-772,       *)
(* index.js:97-103)                                                        *)
(*   for (const { jid, msg } of pendingMessages) {                         *)
(*     try { await sock.sendMessage(jid, msg); } catch (e) { log }         *)
(*   }                                                                     *)
(*   pendingMessages = [];                                                 *)
(* A running flush is [idx, live, arr]: it awaits the send of element idx  *)
(* of the array it iterates.                                               *)

RemoveAt(q, i) == SubSeq(q, 1, i - 1) \o SubSeq(q, i + 1, Len(q))

(* The flush assigns pendingMessages = []: every other running flush keeps *)
(* iterating the array object it started on.                               *)
Detach(f, old) == IF f.live THEN [f EXCEPT !.live = FALSE, !.arr = old] ELSE f

(* What the loop does when the awaited send has settled, whatever its      *)
(* outcome: go on with the next element if the array has one.              *)
FlushHasNext(f) == f.idx < Len(FlushArray(f))

(* A loop that a failed send ends *)
FlushStopsOnFailure(f, delivered) == delivered /\ FlushHasNext(f)

(* The catch of the loop body only logs: the loop goes on whether the send *)
(* was delivered or not.                                                   *)
FlushContinues(f, delivered) == FlushHasNext(f)

(* The mirror that ends the open handler of the final program              *)
(* (part_001:821); telao3 has none (index.js:129-133).                     *)
MirrorAfterOpen(ok) ==
    IF variant = "final"
    THEN remote' = SyncAuthToSupabase(local, remote, ok) /\ mirrorDue' = FALSE
    ELSE remote' = remote /\ mirrorDue' = TRUE

(* connection === "open" (part_001:814-821, index.js:129-133) *)
OpenEvent(ok) ==
    /\ proc = "running"
    /\ sock.conn = "connecting"
    /\ Registered(sock.creds)
    /\ sock' = [sock EXCEPT !.conn = "open"]
    /\ authReady' = TRUE
    /\ reconnectAttempts' = 0
    /\ consecCloses' = 0
    /\ closesSinceReset' = 0
    /\ owed' = {}
    /\ IF Len(pendingMessages) > 0
       THEN /\ flushes' = Append(flushes, [idx |-> 1, live |-> TRUE, arr |-> << >>])
            /\ attempts' = Append(attempts, pendingMessages[1].id)
            /\ mirrorDue' = TRUE
            /\ UNCHANGED remote
       ELSE /\ MirrorAfterOpen(ok)
            /\ UNCHANGED << flushes, attempts >>
    /\ UNCHANGED << variant, proc, qrSent, local, timers, boot, inst >>
    /\ UNCHANGED << pendingMessages, tasks, nextId, senderReadyGroups,
                    senderAttemptAt, now, pushed, failed, outbox, warmSent >>

(* The awaited send of flush i settles (delivered or not). *)
FlushStep(i, delivered, ok) ==
    /\ proc = "running"
    /\ i \in 1..Len(flushes)
    /\ LET f == flushes[i]
           a == FlushArray(f)
       IN  /\ failed' = IF delivered THEN failed ELSE failed \cup {a[f.idx].id}
           /\ IF FlushContinues(f, delivered)
              THEN /\ flushes' = [flushes EXCEPT ![i].idx = f.idx + 1]
                   /\ attempts' = Append(attempts, a[f.idx + 1].id)
                   /\ UNCHANGED << pendingMessages, remote, mirrorDue >>
              ELSE /\ pendingMessages' = << >>
                   /\ flushes' = RemoveAt([k \in 1..Len(flushes) |->
                                              Detach(flushes[k], pendingMessages)], i)
                   /\ MirrorAfterOpen(ok)
                   /\ UNCHANGED attempts
    /\ UNCHANGED << variant, proc, reconnectAttempts, authReady, qrSent, local,
                    timers, boot, sock, inst, consecCloses, closesSinceReset >>
    /\ UNCHANGED << tasks, nextId, senderReadyGroups, senderAttemptAt, now,
                    owed, pushed, outbox, warmSent >>

-----------------------------------------------------------------------------
(* Keep-alive of the final program (part_001:708-718): every five minutes, *)
(*   if (sock && authReady) sock.ev.emit("connection.update",              *)
(*                                       { connection: "ping" })           *)
(* which runs the connection.update handler of the current socket.         *)

(* A handler that takes every state it does not know for a closure *)
BranchElseClose(connection) ==
    CASE connection = "open" -> "open"
      [] connection = "connecting" -> "connecting"
      [] OTHER -> "close"

(* The branch of the handler a connection value selects (part_001:790,     *)
(* 814, 822): if (connection === "close") ... else if (=== "open") ...     *)
(* else if (=== "connecting") ..., and nothing for any other value.        *)
Branch(connection) ==
    CASE connection = "close" -> "close"
      [] connection = "open" -> "open"
      [] connection = "connecting" -> "connecting"
      [] OTHER -> "none"

KeepAlive ==
    /\ proc = "running"
    /\ variant = "final"
    /\ sock.conn # "none"
    /\ authReady
    /\ CASE Branch("ping") = "close" -> CloseEvent("connectionLost")
         [] Branch("ping") = "open" -> \E ok \in SUBSET Blobs : OpenEvent(ok)
         [] OTHER -> UNCHANGED vars

-----------------------------------------------------------------------------
(* Command Router: text normalization and matching (part_001:862-869,      *)
(* 900-912).  A text is a sequence of characters.                          *)

LRM == "U+200E"
RLM == "U+200F"
FSI == "U+2068"
PDI == "U+2069"
Invisible == {LRM, RLM, FSI, PDI}
Whitespace == {" "}

UpperCase == << "A", "B", "C", "D", "E", "F", "G", "H", "I", "J", "K", "L", "M",
                "N", "O", "P", "Q", "R", "S", "T", "U", "V", "W", "X", "Y", "Z" >>
LowerCase == << "a", "b", "c", "d", "e", "f", "g", "h", "i", "j", "k", "l", "m",
                "n", "o", "p", "q", "r", "s", "t", "u", "v", "w", "x", "y", "z" >>

LowerChar(c) ==
    IF \E k \in 1..Len(UpperCase) : UpperCase[k] = c
    THEN LowerCase[CHOOSE k \in 1..Len(UpperCase) : UpperCase[k] = c]
    ELSE c

(* .replace(/[\u200e\u200f\u2068\u2069]/g, "") *)
RECURSIVE StripInvisible(_)
StripInvisible(t) ==
    IF t = << >> THEN << >>
    ELSE IF Head(t) \in Invisible THEN StripInvisible(Tail(t))
    ELSE << Head(t) >> \o StripInvisible(Tail(t))

(* .trim() *)
RECURSIVE TrimLeft(_)
TrimLeft(t) ==
    IF t # << >> /\ Head(t) \in Whitespace THEN TrimLeft(Tail(t)) ELSE t

RECURSIVE TrimRight(_)
TrimRight(t) ==
    IF t # << >> /\ t[Len(t)] \in Whitespace
    THEN TrimRight(SubSeq(t, 1, Len(t) - 1)) ELSE t

Trim(t) == TrimRight(TrimLeft(t))

(* .toLowerCase() *)
ToLowerCase(t) == [k \in 1..Len(t) |-> LowerChar(t[k])]

(* A normalization that trims before it strips *)
MessageTextTrimFirst(raw) == StripInvisible(Trim(raw))

(* part_001:863-868, index.js:143-148: (...).replace(...).trim() *)
MessageText(raw) == Trim(StripInvisible(raw))

LowerText(raw) == ToLowerCase(MessageText(raw))

StartsWith(t, p) == Len(t) >= Len(p) /\ SubSeq(t, 1, Len(p)) = p

(* The literals of the command chain *)
L_compra2 == << ".", "c", "o", "m", "p", "r", "a" >>
L_concorrentes == << "@", "c", "o", "n", "c", "o", "r", "r", "e", "n", "t", "e", "s" >>
L_remove == << "@", "r", "e", "m", "o", "v", "e" >>
L_remove2 == << "/", "r", "e", "m", "o", "v", "e" >>
L_ban == << "@", "b", "a", "n" >>
L_ban2 == << "/", "b", "a", "n" >>
L_pagamentos == << "@", "p", "a", "g", "a", "m", "e", "n", "t", "o", "s" >>
L_grupoOn == << "@", "g", "r", "u", "p", "o", " ", "o", "n" >>
L_grupoOff == << "@", "g", "r", "u", "p", "o", " ", "o", "f", "f" >>
L_compra == << "@", "c", "o", "m", "p", "r", "a" >>
L_rentanas == << "@", "r", "e", "n", "t", "a", "n", "a", "s" >>
L_removeRentanas == L_remove \o << " " >> \o << "r", "e", "n", "t", "a", "n", "a", "s" >>
L_concorrencia == << "@", "c", "o", "n", "c", "o", "r", "r", "e", "n", "c", "i", "a" >>
L_tabela == << "@", "t", "a", "b", "e", "l", "a" >>
L_todos == << "@", "t", "o", "d", "o", "s" >>
L_at == << "@" >>
L_slash == << "/" >>
Shortcuts == { << ".", "n" >>, << ".", "t" >>, << ".", "i" >>, << ".", "s" >> }

(* A chain that tries the generic "@" / "/" branch right after ".compra"   *)
RouteGenericFirst(lower, isGroup) ==
    IF StartsWith(lower, L_compra2) THEN "handleCompra2"
    ELSE IF StartsWith(lower, L_at) \/ StartsWith(lower, L_slash) THEN "handleMessage"
    ELSE IF lower \in Shortcuts THEN "handleTabela"
    ELSE "none"

(* A chain whose "@concorrencia" branch does not test the conversation *)
RouteUngated(lower, isGroup) ==
    IF StartsWith(lower, L_compra2) THEN "handleCompra2"
    ELSE IF lower = L_concorrentes THEN "handleListar"
    ELSE IF StartsWith(lower, L_remove) \/ StartsWith(lower, L_remove2) THEN "handleRemove"
    ELSE IF StartsWith(lower, L_ban) \/ StartsWith(lower, L_ban2) THEN "handleBan"
    ELSE IF lower = L_pagamentos THEN "handlePagamento"
    ELSE IF lower \in {L_grupoOn, L_grupoOff} THEN "handleGrupo"
    ELSE IF \/ StartsWith(lower, L_compra)
            \/ StartsWith(lower, L_rentanas)
            \/ StartsWith(lower, L_removeRentanas) THEN "handleCompra"
    ELSE IF lower = L_concorrencia THEN "handleConcorrer"
    ELSE IF lower = L_tabela THEN "handleTabela"
    ELSE IF lower = L_todos THEN "handleTodos"
    ELSE IF StartsWith(lower, L_at) \/ StartsWith(lower, L_slash) THEN "handleMessage"
    ELSE IF lower \in Shortcuts THEN "handleTabela"
    ELSE "none"

(* A chain whose compra branch comes before its remove branch *)
RouteCompraFirst(lower, isGroup) ==
    IF StartsWith(lower, L_compra2) THEN "handleCompra2"
    ELSE IF lower = L_concorrentes THEN "handleListar"
    ELSE IF \/ StartsWith(lower, L_compra)
            \/ StartsWith(lower, L_rentanas)
            \/ StartsWith(lower, L_removeRentanas) THEN "handleCompra"
    ELSE IF StartsWith(lower, L_remove) \/ StartsWith(lower, L_remove2) THEN "handleRemove"
    ELSE IF StartsWith(lower, L_ban) \/ StartsWith(lower, L_ban2) THEN "handleBan"
    ELSE IF lower = L_pagamentos THEN "handlePagamento"
    ELSE IF lower \in {L_grupoOn, L_grupoOff} THEN "handleGrupo"
    ELSE IF isGroup /\ lower = L_concorrencia THEN "handleConcorrer"
    ELSE IF lower = L_tabela THEN "handleTabela"
    ELSE IF lower = L_todos THEN "handleTodos"
    ELSE IF StartsWith(lower, L_at) \/ StartsWith(lower, L_slash) THEN "handleMessage"
    ELSE IF lower \in Shortcuts THEN "handleTabela"
    ELSE "none"

(* The if / else-if chain of processMessage (part_001:901-912): the        *)
(* handler of the first branch whose condition holds, "none" if none does. *)
Route(lower, isGroup) ==
    IF StartsWith(lower, L_compra2) THEN "handleCompra2"
    ELSE IF lower = L_concorrentes THEN "handleListar"
    ELSE IF StartsWith(lower, L_remove) \/ StartsWith(lower, L_remove2) THEN "handleRemove"
    ELSE IF StartsWith(lower, L_ban) \/ StartsWith(lower, L_ban2) THEN "handleBan"
    ELSE IF lower = L_pagamentos THEN "handlePagamento"
    ELSE IF lower \in {L_grupoOn, L_grupoOff} THEN "handleGrupo"
    ELSE IF \/ StartsWith(lower, L_compra)
            \/ StartsWith(lower, L_rentanas)
            \/ StartsWith(lower, L_removeRentanas) THEN "handleCompra"
    ELSE IF isGroup /\ lower = L_concorrencia THEN "handleConcorrer"
    ELSE IF lower = L_tabela THEN "handleTabela"
    ELSE IF lower = L_todos THEN "handleTodos"
    ELSE IF StartsWith(lower, L_at) \/ StartsWith(lower, L_slash) THEN "handleMessage"
    ELSE IF lower \in Shortcuts THEN "handleTabela"
    ELSE "none"

(* part_001:885  lowerText === "@tabela" || ['.t','.n','.i','.s'].includes(lowerText) *)
Lightweight(lower) == lower = L_tabela \/ lower \in Shortcuts

(* Conversations: jid.endsWith("@g.us") *)
DirectJid == "5511@s.whatsapp.net"
GroupJid == "1203@g.us"
Jids == {DirectJid, GroupJid}
IsGroup(jid) == jid = GroupJid

(* Inbound texts of the behaviours *)
T_TABELA == << "@", "T", "A", "B", "E", "L", "A" >>
T_todos == << "@", "t", "o", "d", "o", "s" >>
T_hello == << "h", "e", "l", "l", "o" >>
InboundTexts == {T_TABELA, T_todos, T_hello}

(* Inbound messages of the behaviours of the router alone: more texts,     *)
(* with or without an image, from the bot itself or not, alone or followed *)
(* in their batch by other messages.                                       *)
T_compra2 == << ".", "c", "o", "m", "p", "r", "a", " ", "a", "b", "c" >>
T_grupoOn == << "@", "g", "r", "u", "p", "o", " ", "o", "n" >>
RouteTexts == InboundTexts \cup {T_compra2, T_grupoOn}

-----------------------------------------------------------------------------
(* Command Router: processMessage (part_001:861-926, index.js:141-174).    *)
(* A running call is a task [id, jid, text, image, inst, pc]; pc names the *)
(* await it is suspended at:                                               *)
(*   "anti"    handleAntiLinkMessage       "pix"     handleMensagemPix     *)
(*   "receipt" handleComprovanteFoto                                       *)
(*   "warm"    the send of ensureGroupReady                                *)
(*   "light1"  handleTabela(.., {fallbackTextOnly})   "light2"  its retry  *)
(*   "cmd"     the command handler         "errsend" the send of the error *)
(* The effect of a step is computed on the record of the variables a task  *)
(* can change.                                                             *)

Cur == [tasks |-> tasks, pm |-> pendingMessages, owed |-> owed, pushed |-> pushed,
        outbox |-> outbox, srg |-> senderReadyGroups, saa |-> senderAttemptAt,
        warm |-> warmSent]

Apply(s) ==
    /\ tasks' = s.tasks
    /\ pendingMessages' = s.pm
    /\ owed' = s.owed
    /\ pushed' = s.pushed
    /\ outbox' = s.outbox
    /\ senderReadyGroups' = s.srg
    /\ senderAttemptAt' = s.saa
    /\ warmSent' = s.warm

Done(s, t) == [s EXCEPT !.tasks = @ \ {t}]

At(s, t, pc) == [s EXCEPT !.tasks = (@ \ {t}) \cup {[t EXCEPT !.pc = pc]}]

Log(s, id, tag) == [s EXCEPT !.outbox[id] = Append(@, tag)]

(* pendingMessages.push({ jid, msg }) *)
Push(s, id, jid, kind) ==
    Log([s EXCEPT !.pm = Append(@, Entry(id, jid, kind)),
                  !.pushed = Append(@, id),
                  !.owed = IF authReady THEN @ ELSE @ \cup {id}],
        id, "queued:" \o kind)

(* A chain that ends with a default branch calling handleMessage *)
DispatchDefault(s, t) ==
    LET h == Route(LowerText(t.text), IsGroup(t.jid))
    IN  Log(At(s, t, "cmd"), t.id, IF h = "none" THEN "handleMessage" ELSE h)

(* part_001:901-912: the matching handler is called and awaited *)
Dispatch(s, t) ==
    LET h == Route(LowerText(t.text), IsGroup(t.jid))
    IN  IF h = "none" THEN Done(s, t) ELSE Log(At(s, t, "cmd"), t.id, h)

(* part_001:916  if (authReady): the error reply is sent directly; telao3  *)
(* (index.js:172) always pushes it.                                        *)
ErrorReplyDirect == variant = "final" /\ authReady

(* A catch that only logs *)
CatchSilent(s, t) == Done(s, t)

(* The catch of processMessage (part_001:914-925, index.js:170-173) *)
Catch(s, t) ==
    IF ErrorReplyDirect THEN At(s, t, "errsend")
    ELSE Done(Push(s, t.id, t.jid, "error"), t)

(* A gate without a cooldown *)
InCooldownNever(last) == FALSE

(* A gate that drops every command that is not lightweight *)
NotReadySkips(s, t) ==
    IF Lightweight(LowerText(t.text))
    THEN Log(At(s, t, "light1"), t.id, "handleTabela")
    ELSE Done(s, t)

(* part_001:883-897: ensureGroupReady returned false *)
NotReady(s, t) ==
    IF Lightweight(LowerText(t.text))
    THEN Log(At(s, t, "light1"), t.id, "handleTabela")
    ELSE Dispatch(s, t)

(* ensureGroupReady up to its await (part_001:837-851); one group is       *)
(* modelled, so the Map of attempt times holds one time per instance.      *)
InCooldown(last) == now - last < SENDER_COOLDOWN_MS

EnsureGroupReady(s, t) ==
    IF t.jid \in s.srg[t.inst] THEN Dispatch(s, t)
    ELSE IF InCooldown(s.saa[t.inst]) THEN NotReady(s, t)
    ELSE At([s EXCEPT !.saa[t.inst] = now,
                      !.warm = Append(@, [inst |-> t.inst, at |-> now])],
            t, "warm")

(* handleMensagemPix resolved: part_001:881 (telao3 has no warm-up gate) *)
AfterPix(s, t) ==
    IF variant = "final" /\ IsGroup(t.jid) THEN EnsureGroupReady(s, t)
    ELSE Dispatch(s, t)

(* handleAntiLinkMessage settled, resolved or rejected (its own try/catch, *)
(* part_001:871): part_001:878  if (imageMessage && group) await           *)
(* handleComprovanteFoto, then handleMensagemPix.                          *)
AfterAntiLink(s, t) ==
    IF t.image /\ IsGroup(t.jid) THEN At(s, t, "receipt") ELSE At(s, t, "pix")

(* An anti-abuse scan awaited inside the guarded block *)
AntiLinkUnguarded(s, t, ok) ==
    IF ok THEN AfterAntiLink(s, t) ELSE Catch(Log(s, t.id, "threw:side"), t)

(* part_001:871-875, index.js:151: try { await handleAntiLinkMessage }     *)
(* catch { console.error }: resolved or rejected, processMessage goes on.  *)
AntiLink(s, t, ok) == AfterAntiLink(s, t)

(* A lightweight branch without its return: control reaches the chain *)
AfterLightFallsThrough(s, t) == Dispatch(s, t)

(* part_001:895  return;  after the lightweight command, whatever became   *)
(* of handleTabela.                                                        *)
AfterLight(s, t) == Done(s, t)

(* The awaited call of task t settles: ok = it resolved.  outbox keeps,    *)
(* per message: the handlers called, "threw:<await>" for every call that   *)
(* rejected, "sent:error" / "queued:<kind>" for every reply.               *)
Step(s, t, ok) ==
    CASE t.pc = "anti"    -> AntiLink(s, t, ok)
      [] t.pc = "receipt" -> IF ok THEN At(s, t, "pix")
                             ELSE Catch(Log(s, t.id, "threw:side"), t)
      [] t.pc = "pix"     -> IF ok THEN AfterPix(s, t)
                             ELSE Catch(Log(s, t.id, "threw:side"), t)
      [] t.pc = "warm"    -> IF ok
                             THEN Dispatch([s EXCEPT !.srg[t.inst] = @ \cup {t.jid}], t)
                             ELSE NotReady(s, t)
      [] t.pc = "light1"  -> IF ok THEN AfterLight(s, t)
                             ELSE Log(Log(At(s, t, "light2"), t.id, "threw:light"),
                                      t.id, "handleTabela")
      [] t.pc = "light2"  -> IF ok THEN AfterLight(s, t)
                             ELSE AfterLight(Log(s, t.id, "threw:light"), t)
      [] t.pc = "cmd"     -> IF ok THEN Done(s, t)
                             ELSE Catch(Log(s, t.id, "threw:cmd"), t)
      [] t.pc = "errsend" -> IF ok THEN Done(Log(s, t.id, "sent:error"), t)
                             ELSE Done(Push(s, t.id, t.jid, "error"), t)

(* An error reply sent outside any try *)
EnclosingBareSend(pc) ==
    CASE pc = "anti"    -> "log"
      [] pc = "receipt" -> "catch"
      [] pc = "pix"     -> "catch"
      [] pc = "warm"    -> "ensureGroupReady"
      [] pc = "light1"  -> "retry"
      [] pc = "light2"  -> "log"
      [] pc = "cmd"     -> "catch"
      [] pc = "errsend" -> "none"

(* The catch clause that receives a rejection of each await, "none" for an *)
(* await outside every try:                                                *)
(*   "log"     part_001:871-875 and 889-893: console.error                 *)
(*   "catch"   part_001:877-914: the catch of processMessage               *)
(*   "ensureGroupReady"  part_001:850-857: its own catch, returns false    *)
(*   "retry"   part_001:886-888: calls handleTabela again                  *)
(*   "push"    part_001:917-921: pushes the error reply                    *)
Enclosing(pc) ==
    CASE pc = "anti"    -> "log"
      [] pc = "receipt" -> "catch"
      [] pc = "pix"     -> "catch"
      [] pc = "warm"    -> "ensureGroupReady"
      [] pc = "light1"  -> "retry"
      [] pc = "light2"  -> "log"
      [] pc = "cmd"     -> "catch"
      [] pc = "errsend" -> "push"

(* A rejection no catch clause receives ends the call: the promise of      *)
(* processMessage rejects.                                                 *)
Rejects(s, t) == Done(Log(s, t.id, "rejected"), t)

TaskStep(t, ok) ==
    /\ proc = "running"
    /\ t \in tasks
    /\ Apply(IF ~ok /\ Enclosing(t.pc) = "none" THEN Rejects(Cur, t)
             ELSE Step(Cur, t, ok))
    /\ UNCHANGED lifeVars
    /\ UNCHANGED << flushes, nextId, now, attempts, failed, mirrorDue >>

(* An inbound message: its conversation, its text, whether it carries an  *)
(* imageMessage, and key.fromMe.                                           *)
Message(jid, text, image, fromMe) ==
    [jid |-> jid, text |-> text, image |-> image, fromMe |-> fromMe]

(* messages.upsert (part_001:928-944, index.js:176-188):                   *)
(*   if (!messages || !messages.length) return;                            *)
(*   const msg = messages[0];  if (msg.key.fromMe) return;                 *)
(* The rest of the batch is never read.  process.nextTick runs             *)
(* processMessage before any other event is handled, up to its first       *)
(* await.                                                                  *)
Upsert(batch) ==
    /\ proc = "running"
    /\ sock.conn \in {"connecting", "open"}
    /\ inst <= MaxInst
    /\ nextId <= MaxMsgs
    /\ IF batch = << >> \/ batch[1].fromMe
       THEN UNCHANGED << nextId, pendingMessages, tasks, owed, pushed, outbox,
                         senderReadyGroups, senderAttemptAt, warmSent >>
       ELSE /\ nextId' = nextId + 1
            /\ IF ~authReady
               THEN Apply(Push(Cur, nextId, batch[1].jid, "starting"))
               ELSE Apply([Cur EXCEPT !.tasks = @ \cup
                              {[id |-> nextId, jid |-> batch[1].jid,
                                text |-> batch[1].text, image |-> batch[1].image,
                                inst |-> inst, pc |-> "anti"]}])
    /\ UNCHANGED lifeVars
    /\ UNCHANGED << flushes, now, attempts, failed, mirrorDue >>

(* A batch of one text message of another user *)
Receive(jid, text) == Upsert(<< Message(jid, text, FALSE, FALSE) >>)

(* The batches of the behaviours of the router alone *)
RouteMsgs ==
    {Message(jid, text, image, fromMe) :
        jid \in Jids, text \in RouteTexts, image \in BOOLEAN, fromMe \in BOOLEAN}
Follower == Message(GroupJid, T_todos, FALSE, FALSE)
Batches ==
    {<< >>} \cup {<< m >> \o [k \in 1..n |-> Follower] :
                    m \in RouteMsgs, n \in 0..(MaxBatch - 1)}

(* Time passes *)
TickMs == SENDER_COOLDOWN_MS \div 2

Tick ==
    /\ proc = "running"
    /\ now < SENDER_COOLDOWN_MS + MaxTicks * TickMs
    /\ now' = now + TickMs
    /\ UNCHANGED lifeVars
    /\ UNCHANGED << pendingMessages, flushes, tasks, nextId, senderReadyGroups,
                    senderAttemptAt, owed, pushed, attempts, failed, outbox,
                    warmSent, mirrorDue >>

-----------------------------------------------------------------------------
(* The events of the supervisor *)
Lifecycle ==
    \/ \E t \in timers : TimerFire(t)
    \/ \E listOk \in BOOLEAN, ok \in SUBSET Blobs : BootSync(listOk, ok)
    \/ BootCreate
    \/ \E crash \in BOOLEAN : BootFail(crash)
    \/ \E rendered \in BOOLEAN : QrEvent(rendered)
    \/ \E b \in Blobs, ok \in SUBSET Blobs : CredsUpdate(b, ok)
    \/ \E reason \in Reasons : CloseEvent(reason)
    \/ \E ok \in SUBSET Blobs : OpenEvent(ok)

(* The events of the router and of the queue *)
Messaging ==
    \/ \E i \in 1..Len(flushes), delivered \in BOOLEAN, ok \in SUBSET Blobs :
          FlushStep(i, delivered, ok)
    \/ \E jid \in Jids, text \in InboundTexts : Receive(jid, text)
    \/ \E t \in tasks, ok \in BOOLEAN : TaskStep(t, ok)
    \/ Tick

Next == Lifecycle \/ Messaging

(* The whole program *)
Spec == Init /\ [][Next]_vars

(* The supervisor alone, over any number of closures.  No handler of the   *)
(* router writes a variable of the supervisor (TaskStep and Receive leave  *)
(* lifeVars unchanged).                                                    *)
SpecSup == Init /\ [][Lifecycle]_vars

(* Every event of the program, on the first MaxInst session instances and  *)
(* with one inbound message.                                               *)
NextEv ==
    \/ \E t \in timers : TimerFire(t)
    \/ \E listOk \in BOOLEAN, ok \in SUBSET Blobs : BootSync(listOk, ok)
    \/ inst < MaxInst /\ BootCreate
    \/ \E crash \in BOOLEAN : BootFail(crash)
    \/ \E rendered \in BOOLEAN : QrEvent(rendered)
    \/ \E b \in Blobs, ok \in SUBSET Blobs : CredsUpdate(b, ok)
    \/ \E reason \in Reasons : CloseEvent(reason)
    \/ \E ok \in SUBSET Blobs : OpenEvent(ok)
    \/ \E i \in 1..Len(flushes), delivered \in BOOLEAN, ok \in SUBSET Blobs :
          FlushStep(i, delivered, ok)
    \/ \E jid \in Jids, text \in InboundTexts : nextId < MaxMsgs /\ Receive(jid, text)
    \/ \E t \in tasks, ok \in BOOLEAN : TaskStep(t, ok)

SpecEv == Init /\ [][NextEv]_vars

(* A device that was linked before: the store and the folder hold its      *)
(* credentials.                                                            *)
InitLinked == Init /\ local = Blobs /\ remote = Blobs

(* The queue and the router against the supervisor: MaxMsgs inbound        *)
(* messages on MaxInst session instances of a linked device.               *)
NextMsg ==
    \/ \E t \in timers : TimerFire(t)
    \/ \E listOk \in BOOLEAN, ok \in SUBSET Blobs : BootSync(listOk, ok)
    \/ inst < MaxInst /\ BootCreate
    \/ \E crash \in BOOLEAN : BootFail(crash)
    \/ \E reason \in Reasons : CloseEvent(reason)
    \/ \E ok \in SUBSET Blobs : OpenEvent(ok)
    \/ \E i \in 1..Len(flushes), delivered \in BOOLEAN, ok \in SUBSET Blobs :
          FlushStep(i, delivered, ok)
    \/ \E jid \in Jids, text \in InboundTexts : Receive(jid, text)
    \/ \E t \in tasks, ok \in BOOLEAN : TaskStep(t, ok)

SpecMsg == InitLinked /\ [][NextMsg]_vars

(* The router and the group readiness cache on one session instance, with  *)
(* the clock.                                                              *)
NextRouter ==
    \/ \E listOk \in BOOLEAN, ok \in SUBSET Blobs : BootSync(listOk, ok)
    \/ inst < 1 /\ BootCreate
    \/ \E reason \in Reasons : CloseEvent(reason)
    \/ \E ok \in SUBSET Blobs : OpenEvent(ok)
    \/ \E i \in 1..Len(flushes), delivered \in BOOLEAN, ok \in SUBSET Blobs :
          FlushStep(i, delivered, ok)
    \/ \E jid \in Jids, text \in InboundTexts : Receive(jid, text)
    \/ \E t \in tasks, ok \in BOOLEAN : TaskStep(t, ok)
    \/ Tick

SpecRouter == InitLinked /\ [][NextRouter]_vars

(* The router alone: one session instance of a linked device and the       *)
(* routing of one batch at a time, over RouteTexts.                        *)
NextRoute ==
    \/ \E listOk \in BOOLEAN, ok \in SUBSET Blobs : BootSync(listOk, ok)
    \/ inst < 1 /\ BootCreate
    \/ \E reason \in Reasons : CloseEvent(reason)
    \/ \E ok \in SUBSET Blobs : OpenEvent(ok)
    \/ \E i \in 1..Len(flushes), delivered \in BOOLEAN, ok \in SUBSET Blobs :
          FlushStep(i, delivered, ok)
    \/ \E batch \in Batches : tasks = {} /\ Upsert(batch)
    \/ \E t \in tasks, ok \in BOOLEAN : TaskStep(t, ok)

SpecRoute == InitLinked /\ [][NextRoute]_vars

(* The router on texts written in several ways: in upper case, wrapped in  *)
(* spaces and invisible marks, with a mark inside.                         *)
UpperText(x) ==
    [k \in 1..Len(x) |->
        IF \E j \in 1..Len(LowerCase) : LowerCase[j] = x[k]
        THEN UpperCase[CHOOSE j \in 1..Len(LowerCase) : LowerCase[j] = x[k]]
        ELSE x[k]]
Spellings(x) ==
    { x,
      UpperText(x),
      << " ", LRM >> \o x \o << PDI, " " >>,
      << FSI, " " >> \o x \o << " ", RLM >>,
      << x[1], RLM >> \o Tail(x) }
T_removeRentanas == L_removeRentanas \o << " ", "x" >>
NormBase == {L_tabela, L_grupoOn, T_compra2, T_hello, L_concorrencia, T_removeRentanas}
NormTexts == UNION {Spellings(x) : x \in NormBase}

NextNorm ==
    \/ \E listOk \in BOOLEAN, ok \in SUBSET Blobs : BootSync(listOk, ok)
    \/ inst < 1 /\ BootCreate
    \/ \E reason \in Reasons : CloseEvent(reason)
    \/ \E ok \in SUBSET Blobs : OpenEvent(ok)
    \/ \E i \in 1..Len(flushes), delivered \in BOOLEAN, ok \in SUBSET Blobs :
          FlushStep(i, delivered, ok)
    \/ \E jid \in Jids, text \in NormTexts : tasks = {} /\ Receive(jid, text)
    \/ \E t \in tasks, ok \in BOOLEAN : TaskStep(t, ok)

SpecNorm == InitLinked /\ [][NextNorm]_vars

(* The supervisor on a first deployment: the remote store is empty at the  *)
(* start of the process, so that it holds, in every later state, exactly   *)
(* the blobs this process has mirrored with success.                       *)
InitFresh == Init /\ remote = {}

SpecStore == InitFresh /\ [][Lifecycle]_vars

(* The supervisor with its scheduling: a pending timer fires, the awaits   *)
(* of a running start settle (the bring-up goes on or rejects), and the    *)
(* transport reports what becomes of a connecting session.                 *)
BringUpSettles == BootCreate \/ \E crash \in BOOLEAN : BootFail(crash)
Hydrates == \E listOk \in BOOLEAN, ok \in SUBSET Blobs : BootSync(listOk, ok)
Fires == \E t \in timers : TimerFire(t)

SpecLive ==
    /\ Init /\ [][Lifecycle]_vars
    /\ WF_vars(Fires) /\ WF_vars(Hydrates) /\ WF_vars(BringUpSettles)

(* Every event of the session, and the keep-alive *)
SpecKeep == Init /\ [][NextEv \/ KeepAlive]_vars

(* The supervisor and the process handlers; the exit timer fires. *)
SpecProc ==
    /\ Init /\ [][Lifecycle \/ ProcessEvents]_vars
    /\ WF_vars(ExitTimer)

-----------------------------------------------------------------------------
(* Properties of the Session Supervisor *)

Final == variant = "final"

(* C1 as stated: 11 consecutive non-logout closures with no open between   *)
(* them end the process with a non-zero code at the 11th closure and at    *)
(* none of the first 10, whatever other session events are interleaved.    *)
(* consecCloses counts the non-logout closures since the last open or      *)
(* logout closure.                                                         *)
C1_Claim ==
    Final => /\ proc = "running" => consecCloses <= MAX_RECONNECT_ATTEMPTS
             /\ proc = "exit1" => consecCloses = MAX_RECONNECT_ATTEMPTS + 1

(* C1 amended: the closures that count are the non-logout closures since   *)
(* the last open, logout closure or emitted scan-required signal           *)
(* (closesSinceReset): the process ends with exit code 1 at the 11th of    *)
(* them and at none of the first 10.                                       *)
C1_Amended ==
    Final => /\ proc = "running" => closesSinceReset <= MAX_RECONNECT_ATTEMPTS
             /\ proc = "exit1" => closesSinceReset = MAX_RECONNECT_ATTEMPTS + 1

(* The 11th closure has ended the process *)
C1_Witness ==
    Final /\ proc = "exit1" /\ closesSinceReset = MAX_RECONNECT_ATTEMPTS + 1

(* delay(n) = min(5000 * 1.5^(n-1), 30000) ms for n in 1..10, in units of  *)
(* 1/DelayScale ms: 5000, 7500, 11250, 16875, 25312.5, 30000, ...          *)
C2_Table ==
    << Ms(5000), Ms(7500), Ms(11250), Ms(16875), Ms(25312) + DelayScale \div 2,
       Ms(30000), Ms(30000), Ms(30000), Ms(30000), Ms(30000) >>

(* C2: the restart that follows a non-logout closure with attempt count n  *)
(* in 1..10 is scheduled after delay(n); delay is non-decreasing in n and  *)
(* never above 30000 ms.                                                   *)
C2_Delay ==
    /\ \A t \in timers :
          t.kind = "backoff" =>
             /\ reconnectAttempts \in 1..MAX_RECONNECT_ATTEMPTS
             /\ t.delay = C2_Table[reconnectAttempts]
    /\ \A n \in 1..MAX_RECONNECT_ATTEMPTS : ReconnectDelay(n) <= Ms(30000)
    /\ \A n \in 1..(MAX_RECONNECT_ATTEMPTS - 1) :
          ReconnectDelay(n) <= ReconnectDelay(n + 1)

(* The restart after the 10th closure in a row is pending, at the cap *)
C2_Witness ==
    /\ reconnectAttempts = MAX_RECONNECT_ATTEMPTS
    /\ \E t \in timers : t.kind = "backoff" /\ t.delay = Ms(30000)

(* The transitions of the session *)
Opens == sock.conn = "connecting" /\ sock'.conn = "open"
Closes == sock.conn \in {"connecting", "open"} /\ sock'.conn = "closed"
LogoutCloses == Closes /\ CloseEvent("loggedOut")
QrEmits == sock'.qrSignals = sock.qrSignals + 1 /\ QrShouldEmit
CounterResets == reconnectAttempts > 0 /\ reconnectAttempts' = 0

(* C3 as stated: the counter is zero after every open event, and apart     *)
(* from a logout closure only a transition to open resets a non-zero       *)
(* counter.                                                                *)
C3_Claim ==
    [][ /\ Opens => reconnectAttempts' = 0
        /\ CounterResets => Opens \/ LogoutCloses ]_vars

(* C3 amended: the counter is zero after every open event and after every  *)
(* emitted scan-required signal; apart from a logout closure, only these   *)
(* two reset a non-zero counter (not a suppressed scan-required signal, a  *)
(* credential update, an inbound message or a restart).                    *)
C3_Amended ==
    [][ /\ Opens => reconnectAttempts' = 0
        /\ QrEmits => reconnectAttempts' = 0
        /\ CounterResets => Opens \/ LogoutCloses \/ QrEmits ]_vars

(* A scan-required signal has reset the counter after a closure *)
C3_Witness ==
    /\ Final /\ sock.conn = "connecting" /\ sock.qrSignals > 0
    /\ consecCloses > 0 /\ reconnectAttempts = 0

(* C4 as stated: every logout closure discards the local credentials and   *)
(* sets the counter to zero, and a start is scheduled.                     *)
C4_Claim ==
    [][ LogoutCloses =>
          /\ local' = {}
          /\ reconnectAttempts' = 0
          /\ \E t \in timers' : t \notin timers ]_vars

(* C4 amended: in the final program a logout closure empties the local     *)
(* credentials, sets the counter to zero and schedules the start after     *)
(* 3000 ms; in telao3 it keeps the credentials, schedules nothing and ends *)
(* the process with exit code 0.                                           *)
C4_Amended ==
    [][ LogoutCloses =>
          IF Final
          THEN /\ local' = {}
               /\ reconnectAttempts' = 0
               /\ proc' = "running"
               /\ timers' = timers \cup {[kind |-> "logout", delay |-> Ms(3000)]}
          ELSE /\ local' = local
               /\ timers' = timers
               /\ proc' = "exit0" ]_vars

(* A logout closure of a linked device has scheduled the start *)
C4_Witness ==
    /\ Final /\ sock.conn = "closed" /\ Registered(sock.creds)
    /\ local = {} /\ reconnectAttempts = 0
    /\ \E t \in timers : t.kind = "logout"

(* C5 as stated: the session instance created by the restart that follows  *)
(* a logout closure is created with an empty credential set, also when the *)
(* remote store still holds the mirrored credentials.                      *)
C5_Claim ==
    (Final /\ sock.cause = "logout" /\ sock.conn # "none") => sock.creds = {}

(* C10 as stated: a session instance emits the credential code at most     *)
(* once, however many scan-required signals the transport fires on it.     *)
C10_Claim == sock.qrEmitted <= 1

-----------------------------------------------------------------------------
(* Properties of the Pending Delivery Queue and of the Command Router *)

Range(q) == {q[k] : k \in 1..Len(q)}
NoDup(q) == \A i, j \in 1..Len(q) : q[i] = q[j] => i = j
Pos(q, x) == CHOOSE k \in 1..Len(q) : q[k] = x

(* C6 as stated: an entry queued while the session is not ready is in the  *)
(* queue until the next open (owed is emptied by the open event); the      *)
(* entries that left the queue were attempted; every entry is attempted at *)
(* most once, and the attempts follow the insertion order.                 *)
C6_Claim ==
    /\ owed \subseteq Ids(pendingMessages)
    /\ Range(pushed) \ Ids(pendingMessages) \subseteq Range(attempts)
    /\ NoDup(attempts)
    /\ \A i, j \in 1..Len(attempts) :
          i < j => Pos(pushed, attempts[i]) <= Pos(pushed, attempts[j])

(* C7: in a flush a failed delivery is followed by the attempt of the next *)
(* entry if there is one, the failed entry is not queued again, and the    *)
(* queue is empty when a flush completes, whatever was delivered.          *)
C7_Flush ==
    [][ /\ \A i \in 1..Len(flushes) :
              (\E ok \in SUBSET Blobs : FlushStep(i, FALSE, ok)) =>
                 LET f == flushes[i]
                     a == FlushArray(f)
                 IN  /\ f.idx < Len(a) =>
                           /\ Len(flushes') = Len(flushes)
                           /\ flushes'[i].idx = f.idx + 1
                           /\ attempts' = Append(attempts, a[f.idx + 1].id)
                           /\ pendingMessages' = pendingMessages
                     /\ f.idx >= Len(a) => Len(flushes') = Len(flushes) - 1
                     /\ Len(pendingMessages') <= Len(pendingMessages)
        /\ Len(flushes') < Len(flushes) => pendingMessages' = << >> ]_vars

(* The flush of two entries has completed: the first delivery failed, the  *)
(* second was attempted and delivered.                                     *)
C7_Witness ==
    /\ inst = 1 /\ Len(attempts) = 2
    /\ attempts[1] \in failed /\ attempts[2] \notin failed
    /\ flushes = << >> /\ pendingMessages = << >>

(* C8 as stated: the error reply of a failed handler is sent directly when *)
(* the ready flag is true and appended to the queue when it is false; it   *)
(* is appended to the queue when the direct send throws.                   *)
C8_Claim ==
    [][ \A t \in tasks :
          LET reply == Entry(t.id, t.jid, "error")
          IN  /\ (t.pc \in {"pix", "cmd"} /\ TaskStep(t, FALSE)) =>
                    IF authReady
                    THEN /\ pendingMessages' = pendingMessages
                         /\ [t EXCEPT !.pc = "errsend"] \in tasks'
                    ELSE pendingMessages' = Append(pendingMessages, reply)
              /\ (t.pc = "errsend" /\ TaskStep(t, FALSE)) =>
                    pendingMessages' = Append(pendingMessages, reply) ]_vars

(* What the router did for message id *)
Count(q, S) == Cardinality({k \in 1..Len(q) : q[k] \in S})
Finished(id) == id < nextId /\ ~(\E t \in tasks : t.id = id)
ErrorReplies(id) == Count(outbox[id], {"sent:error", "queued:error"})
Threw(id) == Count(outbox[id], {"threw:side", "threw:cmd", "threw:light"}) > 0
ThrewGuarded(id) == Count(outbox[id], {"threw:side", "threw:cmd"}) > 0

(* A failed step of a task changes nothing that the routing of another     *)
(* message reads.                                                          *)
FailureIsLocal ==
    \A t \in tasks :
       TaskStep(t, FALSE) =>
          /\ UNCHANGED << authReady, sock, inst, flushes, senderReadyGroups >>
          /\ {x \in tasks' : x.id # t.id} = tasks \ {t}

(* C9 as stated: a message whose handler raised has at most one error      *)
(* reply, and exactly one when its routing is over, on every path.         *)
C9_Claim ==
    \A id \in 1..MaxMsgs :
       Threw(id) => /\ ErrorReplies(id) <= 1
                    /\ Finished(id) => ErrorReplies(id) = 1

(* C9 amended: a message for which a call of the guarded block raised      *)
(* (receipt or pix side-channel, command handler) has exactly one error    *)
(* reply, sent or queued, when its routing is over and never two; on the   *)
(* group-not-ready lightweight path a failure of handleTabela is retried   *)
(* once and produces no error reply; a failure leaves the routing of the   *)
(* other messages as it was.                                               *)
C9_Amended ==
    /\ [](\A id \in 1..MaxMsgs :
             /\ ThrewGuarded(id) => /\ ErrorReplies(id) <= 1
                                    /\ Finished(id) => ErrorReplies(id) = 1
             /\ ~ThrewGuarded(id) => ErrorReplies(id) = 0)
    /\ [][FailureIsLocal]_vars

(* The fallback and its retry both raised and the routing is over: no      *)
(* error reply; the other message got its one error reply.                 *)
C9_Witness ==
    \E id, other \in 1..MaxMsgs :
       /\ Finished(id) /\ Count(outbox[id], {"threw:light"}) = 2
       /\ ErrorReplies(id) = 0
       /\ Finished(other) /\ ThrewGuarded(other) /\ ErrorReplies(other) = 1

-----------------------------------------------------------------------------
(* Properties of the ready flag and of the Group Readiness Cache *)

(* C11 as stated: the ready flag is true only while the current session    *)
(* instance is open, so no inbound message is dispatched and /health does  *)
(* not report "connected" (part_001:699) while it is not.                  *)
C11_Claim ==
    Final => /\ authReady => sock.conn = "open"
             /\ \A t \in tasks : t.pc = "anti" => sock.conn = "open"

WarmedUp == \E i \in 1..MaxInst : GroupJid \in senderReadyGroups[i]

C13_Claim == [][WarmedUp => warmSent' = warmSent]_vars

----------------------------------------------------------------------------
(* The command chain as an ordered table of (predicate, handler) pairs     *)
(* (part_001:901-912, index.js:157-168): a predicate is a prefix match or  *)
(* a membership in a set of literals (an exact match is a set of one),     *)
(* possibly for group conversations only.                                  *)
CommandTable ==
    << [kind |-> "prefix", lits |-> {L_compra2}, group |-> FALSE, handler |-> "handleCompra2"],
       [kind |-> "member", lits |-> {L_concorrentes}, group |-> FALSE, handler |-> "handleListar"],
       [kind |-> "prefix", lits |-> {L_remove, L_remove2}, group |-> FALSE, handler |-> "handleRemove"],
       [kind |-> "prefix", lits |-> {L_ban, L_ban2}, group |-> FALSE, handler |-> "handleBan"],
       [kind |-> "member", lits |-> {L_pagamentos}, group |-> FALSE, handler |-> "handlePagamento"],
       [kind |-> "member", lits |-> {L_grupoOn, L_grupoOff}, group |-> FALSE, handler |-> "handleGrupo"],
       [kind |-> "prefix", lits |-> {L_compra, L_rentanas, L_removeRentanas}, group |-> FALSE,
        handler |-> "handleCompra"],
       [kind |-> "member", lits |-> {L_concorrencia}, group |-> TRUE, handler |-> "handleConcorrer"],
       [kind |-> "member", lits |-> {L_tabela}, group |-> FALSE, handler |-> "handleTabela"],
       [kind |-> "member", lits |-> {L_todos}, group |-> FALSE, handler |-> "handleTodos"],
       [kind |-> "prefix", lits |-> {L_at, L_slash}, group |-> FALSE, handler |-> "handleMessage"],
       [kind |-> "member", lits |-> Shortcuts, group |-> FALSE, handler |-> "handleTabela"] >>

Matches(e, lower, isGroup) ==
    /\ e.group => isGroup
    /\ IF e.kind = "prefix" THEN \E p \in e.lits : StartsWith(lower, p)
       ELSE lower \in e.lits

FirstMatch(lower, isGroup) ==
    LET hits == {k \in 1..Len(CommandTable) : Matches(CommandTable[k], lower, isGroup)}
    IN  IF hits = {} THEN "none"
        ELSE CommandTable[CHOOSE k \in hits : \A j \in hits : k <= j].handler

(* Texts the chain is probed with: every literal of the table, as it is,   *)
(* continued, in upper case, and wrapped in spaces and invisible marks.    *)
Literals == UNION {CommandTable[k].lits : k \in 1..Len(CommandTable)}
UpperChar(c) ==
    IF \E k \in 1..Len(LowerCase) : LowerCase[k] = c
    THEN UpperCase[CHOOSE k \in 1..Len(LowerCase) : LowerCase[k] = c]
    ELSE c
ProbeTexts ==
    RouteTexts \cup Literals \cup {<< >>}
       \cup {l \o << " ", "x" >> : l \in Literals}
       \cup {[k \in 1..Len(l) |-> UpperChar(l[k])] : l \in Literals}
       \cup {<< " ", LRM >> \o l \o << PDI, " " >> : l \in Literals}

Handlers == {CommandTable[k].handler : k \in 1..Len(CommandTable)}
LastTag(id) == outbox[id][Len(outbox[id])]

(* The chain agrees with the table on every probed text *)
ChainIsFirstMatch ==
    \A x \in ProbeTexts, g \in BOOLEAN :
       Route(LowerText(x), g) = FirstMatch(LowerText(x), g)

NamedDispatches ==
    \A g \in BOOLEAN :
       /\ Route(LowerText(T_TABELA), g) = "handleTabela"
       /\ Route(LowerText(T_compra2), g) = "handleCompra2"
       /\ Route(LowerText(T_grupoOn), g) = "handleGrupo"

(* C14: the handler dispatched for a text and a conversation kind is the   *)
(* handler of the first entry of the ordered table whose predicate matches *)
(* the lower-cased text; "@TABELA" dispatches the tabela handler,          *)
(* ".compra abc" the compra2 handler and "@grupo on" the group handler.    *)
C14_FirstMatch ==
    /\ ChainIsFirstMatch
    /\ NamedDispatches
    /\ \A t \in tasks :
          t.pc = "cmd" =>
             LastTag(t.id) = FirstMatch(LowerText(t.text), IsGroup(t.jid))

(* ".compra abc" was received in the group and the compra2 handler is      *)
(* running for it.                                                         *)
C14_Witness ==
    \E t \in tasks :
       /\ t.pc = "cmd" /\ t.text = T_compra2 /\ IsGroup(t.jid)
       /\ LastTag(t.id) = "handleCompra2"

----------------------------------------------------------------------------
(* The text of the message of task t matches no entry of the table *)
Unmatched(t) == Route(LowerText(t.text), IsGroup(t.jid)) = "none"

(* C15 as stated: the routing of a message whose text matches no command   *)
(* invokes no handler and queues no reply: no step of it changes the       *)
(* Pending Delivery Queue.                                                 *)
C15_Claim ==
    [][ \A t \in tasks, ok \in BOOLEAN :
          (Unmatched(t) /\ TaskStep(t, ok)) =>
             /\ Count(outbox'[t.id], Handlers) = 0
             /\ pendingMessages' = pendingMessages ]_vars

(* C15 amended: the routing of a message whose text matches no command     *)
(* invokes no command handler; while no side-channel handler (receipt      *)
(* image, pix) raises, its steps send no reply and leave the queue as it   *)
(* is; when one raises, one error reply is sent directly or, failing       *)
(* that or when the program does not send directly, appended to the queue. *)
C15_Amended ==
    [][ \A t \in tasks, ok \in BOOLEAN :
          (Unmatched(t) /\ TaskStep(t, ok)) =>
             LET raised == ~ok /\ t.pc \in {"receipt", "pix"}
                 reply == Entry(t.id, t.jid, "error")
             IN  /\ Count(outbox'[t.id], Handlers) = 0
                 /\ t.pc \notin {"cmd", "light1", "light2"}
                 /\ ~raised /\ t.pc # "errsend" =>
                       /\ outbox' = outbox
                       /\ pendingMessages' = pendingMessages
                 /\ raised /\ ErrorReplyDirect =>
                       /\ pendingMessages' = pendingMessages
                       /\ [t EXCEPT !.pc = "errsend"] \in tasks'
                 /\ raised /\ ~ErrorReplyDirect =>
                       pendingMessages' = Append(pendingMessages, reply)
                 /\ t.pc = "errsend" =>
                       IF ok THEN pendingMessages' = pendingMessages
                       ELSE pendingMessages' = Append(pendingMessages, reply) ]_vars

(* "hello" was received in the group, the side-channel handlers resolved   *)
(* and the warm-up gate is reached: nothing was logged, sent or queued for *)
(* the message.                                                            *)
C15_Witness ==
    \E t \in tasks :
       /\ t.text = T_hello /\ IsGroup(t.jid) /\ t.pc = "warm"
       /\ outbox[t.id] = << >> /\ pendingMessages = << >>

----------------------------------------------------------------------------
(* The step of task t on which ensureGroupReady returns false: the call    *)
(* finds the cooldown running, or its warm-up send rejects.                *)
GateFalse(t, ok) ==
    /\ Final /\ IsGroup(t.jid)
    /\ \/ /\ t.pc = "pix" /\ ok
          /\ t.jid \notin senderReadyGroups[t.inst]
          /\ InCooldown(senderAttemptAt[t.inst])
       \/ t.pc = "warm" /\ ~ok

RunsLightweight(t) ==
    /\ [t EXCEPT !.pc = "light1"] \in tasks'
    /\ outbox' = [outbox EXCEPT ![t.id] = Append(@, "handleTabela")]
    /\ pendingMessages' = pendingMessages

----------------------------------------------------------------------------
SideChannel == {"anti", "receipt", "pix"}
Continues(t) == \E u \in tasks' : u.id = t.id /\ u.pc # "errsend"

(* C17 as stated: whatever a side-channel check does, raising included,    *)
(* the routing of a message that matches a command goes on to dispatch.    *)
C17_Claim ==
    [][ \A t \in tasks, ok \in BOOLEAN :
          (t.pc \in SideChannel /\ ~Unmatched(t) /\ TaskStep(t, ok)) =>
             /\ Continues(t)
             /\ ErrorReplies(t.id)' = 0 ]_vars

(* C17 amended: the side-channel calls come before dispatch; the receipt   *)
(* handler is called for image messages of a group only; the anti-abuse    *)
(* scan never stops the routing, resolved or raised; the receipt and pix   *)
(* handlers do not stop it when they resolve, and when one raises the      *)
(* command is not dispatched and the error path is taken.                  *)
C17_Amended ==
    [][ \A t \in tasks, ok \in BOOLEAN :
          (t.pc \in SideChannel /\ TaskStep(t, ok)) =>
             /\ Count(outbox[t.id], Handlers) = 0
             /\ t.pc = "receipt" => t.image /\ IsGroup(t.jid)
             /\ t.pc = "anti" =>
                   /\ [t EXCEPT !.pc = IF t.image /\ IsGroup(t.jid)
                                       THEN "receipt" ELSE "pix"] \in tasks'
                   /\ outbox' = outbox /\ pendingMessages' = pendingMessages
             /\ t.pc = "receipt" /\ ok =>
                   /\ [t EXCEPT !.pc = "pix"] \in tasks'
                   /\ outbox' = outbox /\ pendingMessages' = pendingMessages
             /\ t.pc = "pix" /\ ok =>
                   /\ ~Unmatched(t) => Continues(t)
                   /\ ErrorReplies(t.id)' = 0
                   /\ Count(outbox'[t.id], {"threw:side"}) = 0
             /\ t.pc # "anti" /\ ~ok =>
                   /\ Count(outbox'[t.id], Handlers) = 0
                   /\ Count(outbox'[t.id], {"threw:side"}) = 1
                   /\ ~Continues(t)
                   /\ IF ErrorReplyDirect
                      THEN [t EXCEPT !.pc = "errsend"] \in tasks'
                      ELSE ErrorReplies(t.id)' = 1 ]_vars

(* The receipt handler raised for an image message of the group whose text *)
(* is "@todos": no handler was dispatched, the error reply is being sent.  *)
C17_Witness ==
    \E t \in tasks :
       /\ t.image /\ IsGroup(t.jid) /\ t.text = T_todos
       /\ t.pc = "errsend" /\ outbox[t.id] = << "threw:side" >>

----------------------------------------------------------------------------
(* The messages of a batch that the bot did not send itself *)
NotFromSelf(batch) == Cardinality({k \in 1..Len(batch) : ~batch[k].fromMe})

(* C18 as stated: while the session is ready, the delivery of a batch      *)
(* starts the routing of each of its messages that the bot did not send,   *)
(* whatever the size of the batch and the position of the message.         *)
C18_Claim ==
    [][ \A batch \in Batches :
          (authReady /\ Upsert(batch)) =>
             Cardinality(tasks') = Cardinality(tasks) + NotFromSelf(batch) ]_vars

----------------------------------------------------------------------------
(* The mirror of the open handler was attempted on this step: every blob   *)
(* of the local Credential Set whose write succeeded is in the remote      *)
(* store, and no mirror is owed any more.                                  *)
MirrorAttempted ==
    /\ ~mirrorDue'
    /\ \E ok \in SUBSET Blobs : remote' = SyncAuthToSupabase(local, remote, ok)

FlushEnds ==
    \E i \in 1..Len(flushes), delivered \in BOOLEAN, ok \in SUBSET Blobs :
       FlushStep(i, delivered, ok) /\ Len(flushes') < Len(flushes)

(* C19 as stated: every open event sets the ready flag, resets the attempt *)
(* counter, flushes the queue and then mirrors the Credential Set: at the  *)
(* open event itself when the queue is empty, else at the end of the flush *)
(* it starts, whatever was delivered.                                      *)
C19_Claim ==
    [][ /\ Opens =>
              /\ authReady' /\ reconnectAttempts' = 0
              /\ IF pendingMessages = << >> THEN MirrorAttempted
                 ELSE /\ Len(flushes') = Len(flushes) + 1
                      /\ attempts' = Append(attempts, pendingMessages[1].id)
                      /\ remote' = remote
        /\ FlushEnds => MirrorAttempted ]_vars

----------------------------------------------------------------------------
----------------------------------------------------------------------------
(* C21 as stated: the local Credential Set holds every blob that was       *)
(* mirrored with success to the remote store, in every state (a            *)
(* credential update and its mirror are one step here, so that no state    *)
(* lies inside a mirror write).                                            *)
C21_Claim == remote \subseteq local

----------------------------------------------------------------------------
(* The hydration of a start fails: list() returns an error, or a download  *)
(* of a listed file does.                                                  *)
HydrationFails(listOk, ok) == ~listOk \/ ~(remote \subseteq ok)

(* C22 as stated: a failed hydration is swallowed, leaves the local        *)
(* Credential Set exactly as it was, and the start goes on with it.        *)
C22_Claim ==
    [][ \A listOk \in BOOLEAN, ok \in SUBSET Blobs :
          (HydrationFails(listOk, ok) /\ BootSync(listOk, ok)) =>
             /\ local' = local
             /\ boot'.pc = "auth" /\ proc' = "running" ]_vars

----------------------------------------------------------------------------
TimerKinds == {"backoff", "logout", "fixed", "startBot"}
Live == sock.conn \in {"connecting", "open"}
Creates == sock.conn # "connecting" /\ sock'.conn = "connecting"

(* C23: restarts are sequential.  At most one restart timer is pending,    *)
(* and only while no start is running and no session is alive; a start     *)
(* runs only while no session is alive; a session instance is created     *)
(* only by a start, the first one or one called by a restart timer, when   *)
(* the previous instance is closed; the handler of a closed event starts   *)
(* nothing itself.                                                         *)
C23_Sequential ==
    /\ [](/\ Cardinality(timers) <= 1
          /\ timers # {} => boot.pc = "idle" /\ ~Live
          /\ boot.pc # "idle" => ~Live)
    /\ [][ /\ Creates =>
                 /\ ~Live /\ boot.pc = "auth" /\ boot' = Idle
                 /\ sock'.cause = boot.cause
                 /\ boot.cause \in TimerKinds \cup {"first"}
                 /\ inst > 0 => boot.cause \in TimerKinds
           /\ Closes => boot' = boot /\ boot.pc = "idle" /\ inst' = inst
           /\ boot'.pc = "sync" /\ boot.pc # "sync" =>
                 \E t \in timers : t \notin timers' /\ boot'.cause = t.kind ]_vars

(* The session instance created by the restart after a backoff delay was   *)
(* closed in its turn and the next restart is pending.                     *)
C23_Witness ==
    /\ sock.cause = "backoff" /\ sock.conn = "closed"
    /\ Cardinality(timers) = 1 /\ boot.pc = "idle" /\ proc = "running"

----------------------------------------------------------------------------
(* C24 as stated: after every closed event that does not end the process   *)
(* a new session instance is eventually created, whatever the outcome of   *)
(* the bring-up steps of the restarted start.                              *)
C24_Claim ==
    (sock.conn = "closed" /\ proc = "running") ~> (sock.conn = "connecting")

----------------------------------------------------------------------------
(* The entries a running flush will still attempt on an array that is no   *)
(* longer the queue.                                                       *)
StillIterated ==
    UNION {Ids(SubSeq(flushes[i].arr, flushes[i].idx, Len(flushes[i].arr))) :
              i \in {k \in 1..Len(flushes) : ~flushes[k].live}}

(* C25 as stated: a reply appended to the queue, while a flush is in       *)
(* progress or not, is never discarded without a delivery attempt: it is   *)
(* in the queue, or a flush attempted it, or a running flush still has it  *)
(* to attempt.                                                             *)
C25_Claim ==
    Range(pushed) \subseteq
       Ids(pendingMessages) \cup Range(attempts) \cup StillIterated

----------------------------------------------------------------------------
(* C26: in the program with the backoff, a logout closure bypasses the     *)
(* backoff and the ceiling: at every value of the attempt counter, 10      *)
(* included, it leaves the process running and schedules one restart,      *)
(* with the fixed delay of 3000 ms.                                        *)
C26_LogoutBypass ==
    [][ (Final /\ LogoutCloses) =>
           /\ proc' = "running"
           /\ timers' = {[kind |-> "logout", delay |-> Ms(3000)]}
           /\ \A t \in timers' : t.delay < ReconnectDelay(1) ]_vars

(* A session instance is connecting while the attempt counter is at the    *)
(* ceiling: the next closed event is the one that decides between the      *)
(* logout branch and the end of the process.                               *)
C26_Witness ==
    /\ Final /\ proc = "running" /\ sock.conn = "connecting"
    /\ reconnectAttempts = MAX_RECONNECT_ATTEMPTS

----------------------------------------------------------------------------
NonLogoutCloses == Closes /\ CloseEvent("connectionLost")

(* C27: in the program with the backoff, each non-logout closed event      *)
(* increases the attempt counter by exactly one, and the counter is        *)
(* between 0 and 10 in every state in which a restart is scheduled, a      *)
(* start is running or a session is connecting or open.                    *)
C27_Counter ==
    /\ [](Final /\ (timers # {} \/ boot.pc # "idle" \/ Live) =>
             reconnectAttempts \in 0..MAX_RECONNECT_ATTEMPTS)
    /\ [][ (Final /\ NonLogoutCloses) =>
              reconnectAttempts' = reconnectAttempts + 1 ]_vars

(* The tenth non-logout closure in a row: the counter is 10 and the        *)
(* restart is scheduled.                                                   *)
C27_Witness ==
    /\ Final /\ reconnectAttempts = MAX_RECONNECT_ATTEMPTS
    /\ sock.conn = "closed" /\ timers # {} /\ consecCloses = MAX_RECONNECT_ATTEMPTS

----------------------------------------------------------------------------
ExitPending == \E t \in timers : t.kind = "exit"

(* C28: an interrupt signal ends the process with exit code 0; an uncaught *)
(* exception leaves it running with an exit scheduled 1000 ms later, which *)
(* nothing cancels and which ends the process with exit code 1; an         *)
(* unhandled rejection changes nothing.                                    *)
C28_ProcessHandlers ==
    /\ [][ /\ (\E sig \in Signals : Interrupt(sig)) => proc' = "exit0"
           /\ (UncaughtException /\ ~ExitPending) =>
                 /\ proc' = "running"
                 /\ timers' = timers \cup {[kind |-> "exit", delay |-> Ms(1000)]}
           /\ (ExitPending /\ proc' = "running") => ExitPending'
           /\ ExitTimer => proc' = "exit1"
           /\ UnhandledRejection => UNCHANGED vars ]_vars
    /\ ExitPending ~> (proc # "running")

(* The process ended with exit code 1 below the ceiling, with its session  *)
(* open: the exit scheduled by an uncaught exception.                      *)
C28_Witness ==
    /\ Final /\ proc = "exit1" /\ sock.conn = "open"
    /\ reconnectAttempts <= MAX_RECONNECT_ATTEMPTS /\ ~ExitPending

----------------------------------------------------------------------------
Invocations(id) == Count(outbox[id], Handlers)

(* C29: routing one inbound message invokes at most one command handler,   *)
(* on every path.                                                          *)
C29_Claim == \A id \in DOMAIN outbox : Invocations(id) <= 1

(* C29 as the code has it: one invocation at most, except that on the      *)
(* group-not-ready path handleTabela, having raised in text-only mode, is  *)
(* invoked a second time; never a third invocation, never two different    *)
(* handlers, never two invocations without the first having raised.        *)
C29_Amended ==
    \A id \in DOMAIN outbox :
        /\ Invocations(id) <= 2
        /\ Invocations(id) = 2 =>
              /\ Final
              /\ Count(outbox[id], {"handleTabela"}) = 2
              /\ Len(outbox[id]) >= 3
              /\ SubSeq(outbox[id], 1, 3) = << "handleTabela", "threw:light", "handleTabela" >>
        /\ Count(outbox[id], {"threw:light"}) = 0 => Invocations(id) <= 1

(* A message of a not-ready group whose text-only handleTabela raised and  *)
(* whose second handleTabela resolved.                                     *)
C29_Witness ==
    \E id \in DOMAIN outbox :
        /\ Finished(id)
        /\ outbox[id] = << "handleTabela", "threw:light", "handleTabela" >>

----------------------------------------------------------------------------
(* C30: processMessage never rejects, whichever of its awaits fail: the    *)
(* anti-abuse scan, the side-channel handlers, the warm-up send of         *)
(* ensureGroupReady, the command handler, the direct send of the error     *)
(* reply.                                                                  *)
C30_Isolated == \A id \in DOMAIN outbox : Count(outbox[id], {"rejected"}) = 0

(* The only message routed so far is finished: the warm-up of its group    *)
(* failed, its command handler raised, and the direct send of the error    *)
(* reply failed while the session was ready, so that the reply was queued. *)
C30_Witness ==
    /\ Final /\ nextId = 2 /\ Finished(1) /\ tasks = {}
    /\ warmSent # << >> /\ \A i \in DOMAIN senderReadyGroups : senderReadyGroups[i] = {}
    /\ outbox[1] = << "handleTodos", "threw:cmd", "queued:error" >>
    /\ 1 \notin owed

----------------------------------------------------------------------------
(* Every literal of the table, as it is and continued *)
NormProbes == NormBase \cup Literals \cup {l \o << " ", "x" >> : l \in Literals}

(* Every spelling of a text normalizes to the normal form of the text and  *)
(* is dispatched as the text is.                                           *)
SpellingInsensitive ==
    \A x \in NormProbes : \A v \in Spellings(x) :
       /\ LowerText(v) = LowerText(x)
       /\ \A g \in BOOLEAN : Route(LowerText(v), g) = Route(LowerText(x), g)

(* Normalizing a normalized text changes nothing *)
NormalizationIdempotent ==
    \A x \in NormProbes : \A v \in Spellings(x) :
       /\ MessageText(MessageText(v)) = MessageText(v)
       /\ LowerText(LowerText(v)) = LowerText(v)
       /\ \A k \in 1..Len(MessageText(v)) : MessageText(v)[k] \notin Invisible
       /\ MessageText(v) # << >> =>
             /\ Head(MessageText(v)) \notin Whitespace
             /\ MessageText(v)[Len(MessageText(v))] \notin Whitespace

(* C31: normalization removes the four invisible characters, trims and     *)
(* lower-cases, so that two texts differing only in letter case, in        *)
(* surrounding whitespace or in invisible characters are dispatched alike, *)
(* and normalizing twice is normalizing once.                              *)
C31_Normalization ==
    /\ SpellingInsensitive
    /\ NormalizationIdempotent
    /\ \A t \in tasks :
          t.pc = "cmd" =>
             \A x \in NormBase :
                t.text \in Spellings(x) => LastTag(t.id) = Route(x, IsGroup(t.jid))

(* "@grupo on" written with a mark and a space on each side runs the group *)
(* handler.                                                                *)
C31_Witness ==
    \E t \in tasks :
       /\ t.pc = "cmd" /\ t.text = << FSI, " " >> \o L_grupoOn \o << " ", RLM >>
       /\ LastTag(t.id) = "handleGrupo"

----------------------------------------------------------------------------
(* The chain on "@concorrencia" and on every other probed text *)
ConcorrerGroupOnly ==
    /\ Route(L_concorrencia, TRUE) = "handleConcorrer"
    /\ Route(L_concorrencia, FALSE) = "handleMessage"
    /\ \A x \in NormProbes : \A v \in Spellings(x) : \A g \in BOOLEAN :
          Route(LowerText(v), g) = "handleConcorrer" =>
             g /\ LowerText(v) = L_concorrencia

(* C32: "@concorrencia" dispatches the concorrer handler only in a group   *)
(* conversation; in a direct conversation it is dispatched to the generic  *)
(* "@" / "/" handler, not left unhandled.                                  *)
C32_GroupOnly ==
    /\ ConcorrerGroupOnly
    /\ \A t \in tasks :
          (t.pc = "cmd" /\ LowerText(t.text) = L_concorrencia) =>
             LastTag(t.id) = IF IsGroup(t.jid) THEN "handleConcorrer" ELSE "handleMessage"
    /\ \A id \in DOMAIN outbox :
          Count(outbox[id], {"handleConcorrer"}) > 0 =>
             \A t \in tasks : t.id = id => IsGroup(t.jid)

(* "@CONCORRENCIA" received in the direct conversation: the generic        *)
(* handler is running for it.                                              *)
C32_Witness ==
    \E t \in tasks :
       /\ t.pc = "cmd" /\ t.jid = DirectJid /\ t.text = UpperText(L_concorrencia)
       /\ LastTag(t.id) = "handleMessage"

----------------------------------------------------------------------------
(* The chain on the texts beginning with "@remove rentanas", and the       *)
(* predicate that decides each dispatch to the compra handler.             *)
RemoveShadowsCompra ==
    \A x \in NormProbes : \A v \in Spellings(x) : \A g \in BOOLEAN :
       /\ StartsWith(LowerText(v), L_removeRentanas) =>
             Route(LowerText(v), g) = "handleRemove"
       /\ Route(LowerText(v), g) = "handleCompra" =>
             \/ StartsWith(LowerText(v), L_compra)
             \/ StartsWith(LowerText(v), L_rentanas)

(* C34: a text beginning with "@remove rentanas" is dispatched to the      *)
(* remove handler, never to the compra handler: the third predicate of the *)
(* compra entry never decides a dispatch.                                  *)
C34_RemoveFirst ==
    /\ RemoveShadowsCompra
    /\ \A t \in tasks :
          (t.pc = "cmd" /\ StartsWith(LowerText(t.text), L_removeRentanas)) =>
             LastTag(t.id) = "handleRemove"

(* "@remove rentanas x" was received and the remove handler is running *)
C34_Witness ==
    \E t \in tasks :
       /\ t.pc = "cmd" /\ t.text = T_removeRentanas
       /\ outbox[t.id] = << "handleRemove" >>

----------------------------------------------------------------------------
(* The notices a batch is owed: one "bot starting" entry for the           *)
(* conversation of each of its messages that the bot did not send.         *)
StartingNotices(q) ==
    Cardinality({k \in 1..Len(q) : q[k].kind = "starting"})

(* C33 as stated: every message of another user received while the ready   *)
(* flag is false starts no routing and adds exactly one "bot starting"     *)
(* notice to the queue, so that n such messages add n entries; no handler  *)
(* is ever invoked for a message that was answered with the notice.        *)
C33_Claim ==
    /\ [][ \A batch \in Batches :
             (~authReady /\ Upsert(batch)) =>
                /\ tasks' = tasks
                /\ Len(pendingMessages') = Len(pendingMessages) + NotFromSelf(batch)
                /\ StartingNotices(pendingMessages') =
                      StartingNotices(pendingMessages) + NotFromSelf(batch) ]_vars
    /\ [](\A id \in DOMAIN outbox :
             Count(outbox[id], {"queued:starting"}) > 0 => Invocations(id) = 0)

----------------------------------------------------------------------------
(* The entries a running flush has not delivered yet: the one whose send   *)
(* it awaits and those after it.                                           *)
FlushPending ==
    UNION {{FlushArray(flushes[i])[k] :
               k \in flushes[i].idx..Len(FlushArray(flushes[i]))} :
           i \in 1..Len(flushes)}

(* The direct send of the error reply of task t is delivered on this step *)
DirectDelivery(t) == t.pc = "errsend" /\ TaskStep(t, TRUE)

(* C35 as stated: while the flush of the open transition is in progress,   *)
(* no reply of a message accepted after the open is delivered directly     *)
(* ahead of a notice queued before the open that the flush has not         *)
(* delivered yet.  (One session instance: every notice was queued before   *)
(* its open event and every routed message was accepted after it.)         *)
C35_Claim ==
    [][ \A t \in tasks :
          DirectDelivery(t) =>
             ~(\E e \in FlushPending : e.kind = "starting" /\ e.id < t.id) ]_vars

----------------------------------------------------------------------------
(* A start made by startBot (the first one, or one its timer called) fails *)
(* on this step.                                                           *)
StartBotFails ==
    /\ Final /\ boot.cause \in {"first", "startBot"}
    /\ \E crash \in BOOLEAN : BootFail(crash)

(* C36: when the first start fails before a session is created, startBot   *)
(* schedules another start 10000 ms later, and again after each failure of *)
(* a start it scheduled; until a session is created the attempt counter    *)
(* stays 0, the ready flag false and the process running.                  *)
C36_StartBot ==
    /\ [][ StartBotFails =>
              /\ timers' = timers \cup {[kind |-> "startBot", delay |-> Ms(10000)]}
              /\ boot' = Idle
              /\ reconnectAttempts' = reconnectAttempts
              /\ authReady' = authReady
              /\ proc' = "running" /\ inst' = inst ]_vars
    /\ [][ (Final /\ inst = 0 /\ boot.cause = "startBot" /\ boot'.pc = "sync") =>
              /\ \E t \in timers : t.kind = "startBot" /\ timers' = timers \ {t}
              /\ boot'.cause = "startBot" ]_vars
    /\ [](Final /\ inst = 0 =>
              /\ reconnectAttempts = 0 /\ ~authReady /\ proc = "running"
              /\ boot.pc = "idle" => timers = {[kind |-> "startBot", delay |-> Ms(10000)]})

(* No session was ever created and a start called by the timer of startBot *)
(* has reached the creation of the session: an earlier start failed.       *)
C36_Witness ==
    /\ Final /\ inst = 0 /\ boot = [pc |-> "auth", cause |-> "startBot"]
    /\ timers = {} /\ reconnectAttempts = 0 /\ ~authReady /\ proc = "running"

----------------------------------------------------------------------------
(* C37: the keep-alive emits its "ping" only while a socket exists and the *)
(* ready flag is true, and the event changes neither the ready flag, the   *)
(* attempt counter, the queue nor the credential-scan flag, and schedules  *)
(* no restart.                                                             *)
C37_KeepAliveFrame ==
    [][ KeepAlive =>
          /\ sock.conn # "none" /\ authReady
          /\ authReady' = authReady
          /\ reconnectAttempts' = reconnectAttempts
          /\ pendingMessages' = pendingMessages
          /\ qrSent' = qrSent
          /\ timers' = timers /\ boot' = boot
          /\ sock' = sock /\ proc' = proc ]_vars

(* The keep-alive is due on an open session with a reply in the queue *)
C37_Witness ==
    /\ Final /\ proc = "running" /\ authReady /\ sock.conn = "open"
    /\ pendingMessages # << >> /\ timers = {}

----------------------------------------------------------------------------
Telao3 == variant = "telao3"

(* C38: in telao3 a closed event ends the process if and only if its       *)
(* reason is logout (exit code 0, local credentials kept, no restart       *)
(* scheduled); every other closed event schedules exactly one restart      *)
(* 3000 ms later, however many closures came before, and the process runs  *)
(* on.                                                                     *)
C38_Telao3Close ==
    [][ (Telao3 /\ Closes) =>
          /\ timers = {}
          /\ local' = local /\ reconnectAttempts' = reconnectAttempts
          /\ IF LogoutCloses
             THEN proc' = "exit0" /\ timers' = {}
             ELSE /\ proc' = "running"
                  /\ timers' = {[kind |-> "fixed", delay |-> Ms(3000)]} ]_vars

(* telao3 after more non-logout closures in a row than the ceiling of the  *)
(* final program: running, with one restart pending.                       *)
C38_Witness ==
    /\ Telao3 /\ consecCloses > MAX_RECONNECT_ATTEMPTS + 1
    /\ proc = "running" /\ sock.conn = "closed"
    /\ timers = {[kind |-> "fixed", delay |-> Ms(3000)]}

============================================================================
